---- MODULE Spec2Model ----
(***************************************************************************)
(* Client-side orchestration of masm-project-template: the confirmation    *)
(* trackers wait_for_tx and wait_for_note, the lifecycle flows that build, *)
(* submit and track a transaction, and the local-state reset               *)
(* delete_keystore_and_store (src/src/common.rs, src/src/main.rs,          *)
(* src/src/bin/increment.rs, src/tests/increment_count_test.rs).           *)
(***************************************************************************)
EXTENDS Integers, Sequences, FiniteSets, TLC

\* ------------------------------------------------------------------ bounds
MaxPolls == 3
NumTx == 2
NumNotes == 2
NumAccounts == 2
MaxKeyFiles == 2

TxIds == 1..NumTx
NoteIds == 1..NumNotes
Accounts == 1..NumAccounts
KeyNames == 1..MaxKeyFiles

\* Option<AccountId>::None and "no transaction id yet"
NoAccount == 0
NoTx == 0

\* ------------------------------------------------ local persisted state
\* ./store.sqlite3: absent, a removable file, or a file remove_file fails on
StoreKinds == {"absent", "file", "locked"}
\* ./keystore: absent, a directory, or a path read_dir fails on
KeystoreKinds == {"absent", "dir", "notdir"}
\* a direct entry of ./keystore: no entry, a removable file, a file
\* remove_file fails on, or a subdirectory (remove_file fails on it too)
EntryKinds == {"none", "file", "locked", "subdir"}

NoEntries == [n \in KeyNames |-> "none"]

FsStates ==
    { [store |-> s, keystore |-> k, entries |-> e, outside |-> o] :
        s \in StoreKinds, k \in KeystoreKinds,
        e \in [KeyNames -> EntryKinds], o \in BOOLEAN }

\* a state of the disk: only a directory has entries
FsWellFormed(f) == f.keystore # "dir" => f.entries = NoEntries

\* tokio::fs::remove_file on a direct entry: Ok only for a removable file
remove_file_ok(kind) == kind = "file"

\* faulty variant: the store file is reported but never removed
delete_store_file_keep(s) == s

\* lines 40-49: metadata(store).is_ok() then remove_file(store)
delete_store_file(s) == IF remove_file_ok(s) THEN "absent" ELSE s

\* faulty variant: the loop body runs for the first directory entry only
delete_keystore_entries_first(e) ==
    IF \E n \in KeyNames : e[n] # "none"
    THEN LET first == CHOOSE n \in KeyNames :
                          e[n] # "none" /\ \A m \in KeyNames : e[m] # "none" => n <= m
         IN  [e EXCEPT ![first] = IF remove_file_ok(e[first]) THEN "none" ELSE e[first]]
    ELSE e

\* lines 54-61: while let Ok(Some(entry)) = next_entry() { remove_file(entry) }
delete_keystore_entries(e) ==
    [n \in KeyNames |-> IF remove_file_ok(e[n]) THEN "none" ELSE e[n]]

\* lines 39-65
delete_keystore_and_store(f) ==
    [store    |-> delete_store_file(f.store),
     keystore |-> f.keystore,
     entries  |-> IF f.keystore = "dir" THEN delete_keystore_entries(f.entries)
                  ELSE f.entries,
     outside  |-> f.outside]

\* the eprintln! lines one call writes: failed removals and a failed read_dir
reset_stderr(f) ==
    (IF f.store = "locked" THEN 1 ELSE 0)
    + (IF f.keystore = "dir"
       THEN Cardinality({n \in KeyNames : f.entries[n] \in {"locked", "subdir"}})
       ELSE 1)

\* ClientBuilder ... .build(): opens or creates the store file and the
\* keystore directory
open_session_files(f) ==
    [store    |-> IF f.store = "absent" THEN "file" ELSE f.store,
     keystore |-> IF f.keystore = "absent" THEN "dir" ELSE f.keystore,
     entries  |-> f.entries,
     outside  |-> f.outside]

\* ------------------------------------------------------- the local view
\* TransactionStatus of a record of the local store; "Absent" is no record
TxStatus == {"Absent", "Pending", "Committed", "Discarded"}

EmptyStore == [t \in TxIds |-> "Absent"]

\* a note record of the local store: whether it is a Committed input note,
\* and the account that can consume it now (NoAccount: nobody)
NoteRecords == [committed : BOOLEAN, consumer : Accounts \cup {NoAccount}]

NoNote == 0

EmptyNotes == [n \in NoteIds |-> [committed |-> FALSE, consumer |-> NoAccount]]

\* sync_state on a transaction record: a Pending record stays Pending, or
\* becomes Committed or Discarded; a Committed or Discarded record is final,
\* and no record appears for an id the session never submitted
synced_status(s) ==
    IF s = "Pending" THEN {"Pending", "Committed", "Discarded"} ELSE {s}

synced_stores(st) ==
    { s2 \in [TxIds -> TxStatus] : \A t \in TxIds : s2[t] \in synced_status(st[t]) }

\* sync_state on the note records: the ledger decides what each becomes
synced_notes(n) == [NoteIds -> NoteRecords]

RECURSIVE records_from(_, _, _)
records_from(st, ids, t) ==
    IF t > NumTx THEN << >>
    ELSE (IF t \in ids /\ st[t] # "Absent"
          THEN << [id |-> t, status |-> st[t]] >> ELSE << >>)
         \o records_from(st, ids, t + 1)

\* faulty variant: the filter is dropped and every record of the store is returned
get_transactions_unfiltered(st, ids) == records_from(st, TxIds, 1)

\* client.get_transactions(TransactionFilter::Ids(ids))
get_transactions(st, ids) == records_from(st, ids, 1)

\* faulty variant: any settled record counts, as if matching on "not Pending"
tx_committed_settled(recs) ==
    Len(recs) > 0 /\ recs[1].status # "Pending"

\* faulty variant: reads the second record instead of the first
tx_committed_second(recs) ==
    Len(recs) > 1 /\ recs[2].status = "Committed"

\* txs.get(0).is_some_and(|tx| matches!(tx.status, Committed { .. }))
tx_committed(recs) ==
    Len(recs) > 0 /\ recs[1].status = "Committed"

\* faulty variant: the account scope is ignored
get_consumable_notes_unscoped(ns, acct) ==
    { n \in NoteIds : ns[n].consumer # NoAccount }

\* client.get_consumable_notes(account_id): the ids of the records returned
get_consumable_notes(ns, acct) ==
    { n \in NoteIds : ns[n].consumer # NoAccount
                      /\ (acct = NoAccount \/ ns[n].consumer = acct) }

\* client.get_input_notes(NoteFilter::Committed): the ids of the records
get_input_notes_committed(ns) == { n \in NoteIds : ns[n].committed }

\* faulty variant: both views are required
note_found_both(cons, comm, e) == e \in cons /\ e \in comm

\* consumable.iter().any(..id == expected.id()) || committed.iter().any(..)
note_found(cons, comm, e) == e \in cons \/ e \in comm

\* ------------------------------------------------------------ the flows
Trackers == {"wait_for_tx", "wait_for_note"}

Ops == {"wait_for_tx", "wait_for_note", "create_public_note",
        "increment_main", "deploy_main", "script_test",
        "create_basic_account"}

\* faulty variant: the note is returned right after the submission
create_public_note_calls_nowait ==
    << "build", "submit_new_transaction" >>

\* create_public_note: build the note and the request, submit, wait
create_public_note_calls ==
    << "build", "submit_new_transaction", "wait_for_tx" >>

\* every fallible call of create_public_note ends in `?`
create_public_note_errors == << "err", "err", "err" >>

\* create_basic_account: build the account, add it to the store, then add
\* its key to the keystore
create_basic_account_calls ==
    << "build", "add_basic_account", "add_key" >>

\* builder.build()?, add_account(..).await?, add_key(..)?
create_basic_account_errors == << "err", "err", "err" >>

\* faulty variant: the flow does not wait for the transaction
increment_main_calls_nowait ==
    << "reset", "client", "sync", "import", "fetch", "build",
       "submit_new_transaction", "sync", "fetch" >>

\* src/bin/increment.rs main, in program order
increment_main_calls ==
    << "reset", "client", "sync", "import", "fetch", "build",
       "submit_new_transaction", "wait_for_tx", "sync", "fetch" >>

\* unwrap() everywhere but get_account(..).await? and wait_for_tx(..).await?
increment_main_errors ==
    << "-", "panic", "panic", "panic", "err", "panic",
       "panic", "err", "panic", "err" >>

\* src/main.rs main, in program order
deploy_main_calls ==
    << "reset", "client", "sync", "build", "add_account", "build",
       "new_transaction", "submit_transaction", "sleep", "reset", "client",
       "import", "sync", "fetch", "verify" >>

\* every fallible call of src/main.rs ends in `?`; a counter value other
\* than 1 ends the process with std::process::exit(1)
deploy_main_errors ==
    << "-", "err", "err", "err", "err", "err",
       "err", "err", "-", "-", "err",
       "err", "err", "err", "exit" >>

\* the test increment_counter_with_script, in program order
script_test_calls ==
    << "reset", "client", "sync", "build", "add_account", "build",
       "new_transaction", "submit_transaction", "sleep", "reset", "client",
       "import", "sync", "fetch", "verify" >>

\* build().await? on the two clients, `let _ =` on submit_transaction,
\* unwrap() on the rest; assert_eq!(val, 1) panics on another value
script_test_errors ==
    << "-", "err", "panic", "panic", "panic", "panic",
       "panic", "ignore", "-", "-", "err",
       "panic", "panic", "panic", "panic" >>

\* the calls of each entry point
Flow(o) ==
    CASE o = "wait_for_tx"        -> << "wait_for_tx" >>
      [] o = "wait_for_note"      -> << "wait_for_note" >>
      [] o = "create_public_note" -> create_public_note_calls
      [] o = "create_basic_account" -> create_basic_account_calls
      [] o = "increment_main"     -> increment_main_calls
      [] o = "deploy_main"        -> deploy_main_calls
      [] o = "script_test"        -> script_test_calls

\* ------------------------------------------------- the counter account
\* the largest counter value the ledger holds before the flow's own increment
MaxCount == 2

\* no account state: the account is not on the ledger, or not in the store
NoState == << >>

\* StorageSlot::Value([Felt::new(0), Felt::new(0), Felt::new(0), Felt::new(0)])
InitialSlot == << 0, 0, 0, 0 >>

\* the slot of a counter whose value is c
SlotStates == { [InitialSlot EXCEPT ![4] = c] : c \in 0..(MaxCount + 1) }

\* the increment procedure of the counter account adds one to the last
\* field of the slot
increment_count(w) == [w EXCEPT ![4] = w[4] + 1]

\* faulty variant: the first field of the word is read
counter_of_first(w) == w[1]

\* word.get(3).unwrap().as_int()
counter_of(w) == w[4]

\* what the ledger holds once the flow's transaction is in a block: the
\* counter flows run the increment on the account, which a first
\* transaction also puts on the ledger
included_slot(o, slot) ==
    IF o \in {"increment_main", "deploy_main", "script_test"}
    THEN increment_count(IF slot = NoState THEN InitialSlot ELSE slot)
    ELSE slot

\* what each call's error does: "err" is `?` (returned to the caller),
\* "panic" is unwrap(), "ignore" is `let _ =`, "exit" is
\* std::process::exit(1), "-" is a call that cannot fail
ErrPolicy(o) ==
    CASE o = "wait_for_tx"        -> << "err" >>
      [] o = "wait_for_note"      -> << "err" >>
      [] o = "create_public_note" -> create_public_note_errors
      [] o = "create_basic_account" -> create_basic_account_errors
      [] o = "increment_main"     -> increment_main_errors
      [] o = "deploy_main"        -> deploy_main_errors
      [] o = "script_test"        -> script_test_errors

\* the disk before a flow starts: no locked file, no stray entry
InitFs ==
    { f \in FsStates : /\ FsWellFormed(f)
                       /\ f.store \in {"absent", "file"}
                       /\ f.keystore \in {"absent", "dir"}
                       /\ \A n \in KeyNames : f.entries[n] \in {"none", "file"}
                       /\ f.outside }

\* the disk under a live session
SessionFs ==
    [store |-> "file", keystore |-> "dir", entries |-> NoEntries, outside |-> TRUE]

MaxResets == 2

VARIABLES
    op, step, tpc, outcome, tracker,
    tx_id, store, txs,
    account_id, expected, notes, consumable, committed,
    polls, sleeps, lastSync, lastQuery, trackerRet, firstCommittedAt,
    firstFoundAt, sleptSecs,
    submitRes, submitCalls, callsAfterSubmit,
    fs, fsBefore, fsStart, resetsInRow, stderr,
    liveSessions, sessionsAtReset,
    awaiting, syncInFlight,
    nodeTx, chainSlot,
    localSlot, counterReads,
    errValue,
    accountAdded, keyAdded

ctlVars == << op, step, tpc, outcome, tracker >>
txVars == << tx_id, store, txs >>
noteVars == << account_id, expected, notes, consumable, committed >>
pollVars == << polls, sleeps, lastSync, lastQuery, trackerRet, firstCommittedAt,
              firstFoundAt, sleptSecs >>
submitVars == << submitRes, submitCalls, callsAfterSubmit >>
fsVars == << fs, fsBefore, fsStart, resetsInRow, stderr >>

\* the sessions that are live, and how many were live at the last reset
sessVars == << liveSessions, sessionsAtReset >>

\* the call the task is suspended on, and the synchronize calls in flight
callVars == << awaiting, syncInFlight >>

\* what the node did with the submitted transaction, and the counter
\* account's slot on the ledger
nodeVars == << nodeTx, chainSlot >>

\* the counter account's slot in the store, and the counter values read
acctVars == << localSlot, counterReads >>

\* the error a tracker or create_public_note returned
errVars == << errValue >>

\* what create_basic_account has written so far
keyVars == << accountAdded, keyAdded >>

vars == << ctlVars, txVars, noteVars, pollVars, submitVars, fsVars, sessVars, callVars, nodeVars, acctVars, errVars, keyVars >>

Kind == Flow(op)[step]
Policy == ErrPolicy(op)[step]
Running == outcome = "running"

\* -------------------------------------------------------------- errors
\* no error was returned
NoError == [from |-> "none", id |-> 0]

\* the ClientError of a failed library call: it names what failed in the
\* call; the call does not know which transaction or note its caller tracks
client_error(call) == [from |-> call, id |-> 0]

\* ---------------------------------------------------------- control flow
\* the call returned Ok: go to the next call of the flow, or return Ok
Advance ==
    IF step = Len(Flow(op))
    THEN /\ outcome' = "ok"
         /\ tpc' = "idle"
         /\ UNCHANGED << op, step, tracker >>
    ELSE /\ step' = step + 1
         /\ tpc' = IF Flow(op)[step + 1] \in Trackers THEN "sync" ELSE "idle"
         /\ tracker' = IF Flow(op)[step + 1] \in Trackers
                       THEN Flow(op)[step + 1] ELSE tracker
         /\ UNCHANGED << op, outcome >>

\* the call returned Err: `?` returns it, unwrap() panics, `let _ =` drops it
Fail ==
    CASE Policy = "err"    -> outcome' = "err" /\ tpc' = "idle"
                              /\ UNCHANGED << op, step, tracker >>
      [] Policy = "panic"  -> outcome' = "panic" /\ tpc' = "idle"
                              /\ UNCHANGED << op, step, tracker >>
      [] Policy = "ignore" -> Advance
      [] Policy = "exit"   -> outcome' = "exit1" /\ tpc' = "idle"
                              /\ UNCHANGED << op, step, tracker >>

\* a synchronize, query or import call made once a submit has been attempted
CountAfterSubmit ==
    callsAfterSubmit' = IF submitRes = "none" THEN callsAfterSubmit
                        ELSE callsAfterSubmit + 1

\* --------------------------------------------------------------- resets
ResetEffect ==
    /\ fsBefore' = fs
    /\ fs' = delete_keystore_and_store(fs)
    /\ stderr' = reset_stderr(fs)
    /\ resetsInRow' = resetsInRow + 1
    /\ fsStart' = IF resetsInRow = 0 THEN fs ELSE fsStart

\* delete_keystore_and_store().await as a call of a flow
Reset ==
    /\ Running /\ Kind = "reset"
    /\ ResetEffect
    /\ sessionsAtReset' = liveSessions
    /\ UNCHANGED liveSessions
    /\ Advance
    /\ UNCHANGED << txVars, noteVars, pollVars, submitVars >>
    /\ UNCHANGED callVars
    /\ UNCHANGED nodeVars
    /\ UNCHANGED acctVars
    /\ UNCHANGED errVars
    /\ UNCHANGED keyVars

\* ClientBuilder::new()...build().await: a session on the files on disk; a
\* store file created now holds no record. `let mut client = ..` binds the
\* new session; an earlier binding of the same name is shadowed, and a
\* shadowed value is dropped only when its scope ends, so it stays live
BuildClient ==
    /\ Running /\ Kind = "client"
    /\ \/ /\ fs.keystore # "notdir"
          /\ fs' = open_session_files(fs)
          /\ store' = IF fs.store = "absent" THEN EmptyStore ELSE store
          /\ notes' = IF fs.store = "absent" THEN EmptyNotes ELSE notes
          /\ resetsInRow' = 0
          /\ fsBefore' = fs' /\ fsStart' = fs'
          /\ liveSessions' = liveSessions + 1
          /\ Advance
          /\ UNCHANGED << tx_id, txs, account_id, expected, consumable, committed,
                          stderr >>
       \/ /\ Fail
          /\ UNCHANGED << txVars, noteVars, fsVars, liveSessions >>
    /\ UNCHANGED << pollVars, submitVars, sessionsAtReset >>
    /\ UNCHANGED callVars
    /\ UNCHANGED nodeVars
    /\ UNCHANGED acctVars
    /\ UNCHANGED errVars
    /\ UNCHANGED keyVars

\* the status the node reports for the transaction this flow submitted
node_status ==
    CASE nodeTx = "inflight" -> "Pending"
      [] nodeTx = "included" -> "Committed"
      [] nodeTx = "dropped"  -> "Discarded"

\* a synchronize brings the node's view: the record of the flow's own
\* transaction, if the store holds one, follows what the node did with it
node_agrees(s2) ==
    (nodeTx # "none" /\ store[tx_id] # "Absent") => s2[tx_id] = node_status

\* a synchronize refreshes a tracked account that is on the ledger; while
\* the flow's own transaction is in flight the locally applied state stands
synced_slot ==
    IF localSlot = NoState \/ chainSlot = NoState \/ nodeTx = "inflight"
    THEN localSlot ELSE chainSlot

\* the program is about to call sync_state: in a flow, or at the head of a
\* tracker's loop
AtSyncCall ==
    \/ Kind = "sync"
    \/ Kind \in Trackers /\ tpc = "sync"

\* faulty variant: the call is spawned and the caller goes on without awaiting it
sync_state_spawn ==
    /\ Running /\ AtSyncCall
    /\ syncInFlight < 2
    /\ syncInFlight' = syncInFlight + 1
    /\ UNCHANGED << awaiting, ctlVars, txVars, noteVars, pollVars, submitVars,
                    fsVars, sessVars >>
    /\ UNCHANGED nodeVars
    /\ UNCHANGED acctVars
    /\ UNCHANGED errVars
    /\ UNCHANGED keyVars

\* client.sync_state() is called and `.await` suspends the caller on it; the
\* actions below that complete a synchronize resume it
sync_state_call ==
    /\ Running /\ AtSyncCall
    /\ awaiting = "none"
    /\ awaiting' = "sync_state"
    /\ syncInFlight' = syncInFlight + 1
    /\ UNCHANGED << ctlVars, txVars, noteVars, pollVars, submitVars, fsVars,
                    sessVars >>
    /\ UNCHANGED nodeVars
    /\ UNCHANGED acctVars
    /\ UNCHANGED errVars
    /\ UNCHANGED keyVars

\* client.sync_state().await outside a tracker: the call completes
Sync ==
    /\ Running /\ Kind = "sync"
    /\ awaiting = "sync_state"
    /\ awaiting' = "none"
    /\ syncInFlight' = syncInFlight - 1
    /\ CountAfterSubmit
    /\ \/ /\ \E s2 \in synced_stores(store) :
                /\ node_agrees(s2)
                /\ store' = s2
          /\ localSlot' = synced_slot
          /\ Advance
          /\ UNCHANGED << tx_id, txs >>
       \/ /\ Fail
          /\ UNCHANGED << txVars, localSlot >>
    /\ UNCHANGED counterReads
    /\ UNCHANGED << noteVars, pollVars, submitRes, submitCalls, fsVars >>
    /\ UNCHANGED sessVars
    /\ UNCHANGED nodeVars
    /\ UNCHANGED errVars
    /\ UNCHANGED keyVars

\* client.import_account_by_id(id): the node returns the account's public
\* state; it has none for an account that no transaction has put on the ledger
ImportAccount ==
    /\ Running /\ Kind = "import"
    /\ CountAfterSubmit
    /\ \/ /\ chainSlot # NoState
          /\ localSlot' = chainSlot
          /\ Advance
       \/ /\ Fail
          /\ UNCHANGED localSlot
    /\ UNCHANGED << txVars, noteVars, pollVars, submitRes, submitCalls, fsVars,
                    sessVars, callVars, nodeVars, counterReads >>
    /\ UNCHANGED errVars
    /\ UNCHANGED keyVars

\* client.get_account(id) and the read of the counter from slot 0
GetAccount ==
    /\ Running /\ Kind = "fetch"
    /\ CountAfterSubmit
    /\ \/ /\ localSlot # NoState
          /\ counterReads' = Append(counterReads, counter_of(localSlot))
          /\ Advance
       \/ /\ Fail
          /\ UNCHANGED counterReads
    /\ UNCHANGED << txVars, noteVars, pollVars, submitRes, submitCalls, fsVars,
                    sessVars, callVars, nodeVars, localSlot >>
    /\ UNCHANGED errVars
    /\ UNCHANGED keyVars

\* client.add_account(&counter_contract, ..): the new account enters the store
AddAccount ==
    /\ Running /\ Kind = "add_account"
    /\ \/ /\ localSlot' = InitialSlot
          /\ Advance
       \/ /\ Fail
          /\ UNCHANGED localSlot
    /\ UNCHANGED << txVars, noteVars, pollVars, submitVars, fsVars, sessVars,
                    callVars, nodeVars, counterReads >>
    /\ UNCHANGED errVars
    /\ UNCHANGED keyVars

\* if counter_val != 1 { .. exit(1) } in src/main.rs, assert_eq!(val, 1) in
\* the test
Verify ==
    /\ Running /\ Kind = "verify"
    /\ IF counterReads[Len(counterReads)] = 1 THEN Advance ELSE Fail
    /\ UNCHANGED << txVars, noteVars, pollVars, submitVars, fsVars, sessVars,
                    callVars, nodeVars, acctVars >>
    /\ UNCHANGED errVars
    /\ UNCHANGED keyVars

\* ------------------------------------------------ create_basic_account
\* line 154: client.add_account(&account, false).await?
AddBasicAccount ==
    /\ Running /\ Kind = "add_basic_account"
    /\ \/ /\ accountAdded' = TRUE
          /\ Advance
       \/ /\ Fail
          /\ UNCHANGED accountAdded
    /\ UNCHANGED << txVars, noteVars, pollVars, submitVars, fsVars, sessVars,
                    callVars, nodeVars, acctVars, errVars, keyAdded >>

\* line 155: keystore.add_key(&key_pair)?: the key is written to a new file
\* of the keystore directory
AddKey ==
    /\ Running /\ Kind = "add_key"
    /\ \/ /\ keyAdded' = TRUE
          /\ \E n \in KeyNames :
                /\ fs.entries[n] = "none"
                /\ fs' = [fs EXCEPT !.entries[n] = "file"]
          /\ Advance
       \/ /\ Fail
          /\ UNCHANGED << keyAdded, fs >>
    /\ UNCHANGED << txVars, noteVars, pollVars, submitVars, fsBefore, fsStart,
                    resetsInRow, stderr, sessVars, callVars, nodeVars, acctVars,
                    errVars, accountAdded >>

\* ----------------------------------------------------------- the ledger
\* the node puts the submitted transaction in a block, at any time
NodeInclude ==
    /\ Running /\ nodeTx = "inflight"
    /\ nodeTx' = "included"
    /\ chainSlot' = included_slot(op, chainSlot)
    /\ UNCHANGED << ctlVars, txVars, noteVars, pollVars, submitVars, fsVars,
                    sessVars, callVars, acctVars >>
    /\ UNCHANGED errVars
    /\ UNCHANGED keyVars

\* the node gives the submitted transaction up
NodeDrop ==
    /\ Running /\ nodeTx = "inflight"
    /\ nodeTx' = "dropped"
    /\ UNCHANGED << ctlVars, txVars, noteVars, pollVars, submitVars, fsVars,
                    sessVars, callVars, acctVars, chainSlot >>
    /\ UNCHANGED errVars
    /\ UNCHANGED keyVars

\* another actor's increment of the public counter is put in a block
OtherIncrement ==
    /\ Running /\ op = "increment_main"
    /\ chainSlot # NoState /\ chainSlot[4] < MaxCount
    /\ chainSlot' = increment_count(chainSlot)
    /\ UNCHANGED << ctlVars, txVars, noteVars, pollVars, submitVars, fsVars,
                    sessVars, callVars, acctVars, nodeTx >>
    /\ UNCHANGED errVars
    /\ UNCHANGED keyVars

\* compiling and building the account, note, script and request: no call
\* that the claims count
Build ==
    /\ Running /\ Kind = "build"
    /\ (Advance \/ Fail)
    /\ UNCHANGED << txVars, noteVars, pollVars, submitVars, fsVars >>
    /\ UNCHANGED sessVars
    /\ UNCHANGED callVars
    /\ UNCHANGED nodeVars
    /\ UNCHANGED acctVars
    /\ UNCHANGED errVars
    /\ UNCHANGED keyVars

\* sleep(Duration::from_secs(5)) between submit and reset
Settle ==
    /\ Running /\ Kind = "sleep"
    /\ Advance
    /\ UNCHANGED << txVars, noteVars, pollVars, submitVars, fsVars >>
    /\ UNCHANGED sessVars
    /\ UNCHANGED callVars
    /\ UNCHANGED nodeVars
    /\ UNCHANGED acctVars
    /\ UNCHANGED errVars
    /\ UNCHANGED keyVars

\* ----------------------------------------------------------- submission
\* a transaction id not yet in the store
FreshTx == { t \in TxIds : store[t] = "Absent" }

\* client.new_transaction(account, request): local execution only
NewTransaction ==
    /\ Running /\ Kind = "new_transaction"
    /\ \/ /\ Advance
          /\ UNCHANGED submitRes
       \/ /\ submitRes' = "exec_err"
          /\ Fail
    /\ UNCHANGED << txVars, noteVars, pollVars, submitCalls, callsAfterSubmit, fsVars >>
    /\ UNCHANGED sessVars
    /\ UNCHANGED callVars
    /\ UNCHANGED nodeVars
    /\ UNCHANGED acctVars
    /\ UNCHANGED errVars
    /\ UNCHANGED keyVars

\* client.submit_transaction(tx): hands the executed transaction to the node
SubmitTransaction ==
    /\ Running /\ Kind = "submit_transaction"
    /\ submitCalls' = submitCalls + 1
    /\ \/ /\ \E t \in FreshTx :
                /\ tx_id' = t
                /\ store' = [store EXCEPT ![t] = "Pending"]
          /\ submitRes' = "ok"
          /\ nodeTx' = "inflight"
          /\ localSlot' = IF localSlot = NoState THEN NoState
                          ELSE included_slot(op, localSlot)
          /\ Advance
          /\ UNCHANGED txs
       \/ /\ submitRes' = "rejected"
          /\ Fail
          /\ UNCHANGED << txVars, nodeTx, localSlot >>
    /\ UNCHANGED << noteVars, pollVars, callsAfterSubmit, fsVars >>
    /\ UNCHANGED sessVars
    /\ UNCHANGED callVars
    /\ UNCHANGED << chainSlot, counterReads >>
    /\ UNCHANGED errVars
    /\ UNCHANGED keyVars

\* client.submit_new_transaction(account, request): executes, then submits
SubmitNewTransaction ==
    /\ Running /\ Kind = "submit_new_transaction"
    /\ submitCalls' = submitCalls + 1
    /\ \/ /\ \E t \in FreshTx :
                /\ tx_id' = t
                /\ store' = [store EXCEPT ![t] = "Pending"]
          /\ submitRes' = "ok"
          /\ nodeTx' = "inflight"
          /\ localSlot' = IF localSlot = NoState THEN NoState
                          ELSE included_slot(op, localSlot)
          /\ Advance
          /\ UNCHANGED << txs, errValue >>
       \/ /\ \E e \in {"exec_err", "rejected"} : submitRes' = e
          /\ errValue' = client_error("submit_new_transaction")
          /\ Fail
          /\ UNCHANGED << txVars, nodeTx, localSlot >>
    /\ UNCHANGED << noteVars, pollVars, callsAfterSubmit, fsVars >>
    /\ UNCHANGED sessVars
    /\ UNCHANGED callVars
    /\ UNCHANGED << chainSlot, counterReads >>
    /\ UNCHANGED keyVars

\* ---------------------------------------------------------- wait_for_tx
\* Duration::from_secs(2) in the loop of wait_for_tx
TX_POLL_SECS == 2

\* Duration::from_secs(2) in the loop of wait_for_note
NOTE_POLL_SECS == 2

\* the tracker returns Err(e) through `?`: e is the error of the call that
\* failed, passed on as it is
TrackerErr ==
    /\ trackerRet' = "Err"
    /\ errValue' = client_error(IF tpc = "sync" THEN "sync_state" ELSE "query")
    /\ Fail

\* line 240: client.sync_state().await?
wait_for_tx_sync ==
    /\ Running /\ Kind = "wait_for_tx" /\ tpc = "sync"
    /\ awaiting = "sync_state"
    /\ awaiting' = "none"
    /\ syncInFlight' = syncInFlight - 1
    /\ polls' = polls + 1
    /\ lastQuery' = "none"
    /\ CountAfterSubmit
    /\ \/ /\ \E s2 \in synced_stores(store) :
                /\ node_agrees(s2)
                /\ store' = s2
                /\ firstCommittedAt' =
                      IF store[tx_id] # "Committed" /\ s2[tx_id] = "Committed"
                      THEN polls + 1 ELSE firstCommittedAt
          /\ localSlot' = synced_slot
          /\ lastSync' = "ok"
          /\ tpc' = "query"
          /\ UNCHANGED << op, step, outcome, tracker, trackerRet, errValue >>
       \/ /\ lastSync' = "err"
          /\ TrackerErr
          /\ UNCHANGED << store, firstCommittedAt, localSlot >>
    /\ UNCHANGED counterReads
    /\ UNCHANGED << tx_id, txs, sleeps, noteVars, submitRes, submitCalls, fsVars >>
    /\ UNCHANGED sessVars
    /\ UNCHANGED nodeVars
    /\ UNCHANGED firstFoundAt
    /\ UNCHANGED sleptSecs
    /\ UNCHANGED keyVars

\* lines 242-244: client.get_transactions(TransactionFilter::Ids(vec![tx_id])).await?
wait_for_tx_query ==
    /\ Running /\ Kind = "wait_for_tx" /\ tpc = "query"
    /\ CountAfterSubmit
    /\ \/ /\ txs' = get_transactions(store, {tx_id})
          /\ lastQuery' = "ok"
          /\ tpc' = "check"
          /\ UNCHANGED << op, step, outcome, tracker, trackerRet, errValue >>
       \/ /\ lastQuery' = "err"
          /\ TrackerErr
          /\ UNCHANGED txs
    /\ UNCHANGED << tx_id, store, polls, sleeps, lastSync, firstCommittedAt,
                    noteVars, submitRes, submitCalls, fsVars >>
    /\ UNCHANGED sessVars
    /\ UNCHANGED callVars
    /\ UNCHANGED nodeVars
    /\ UNCHANGED acctVars
    /\ UNCHANGED firstFoundAt
    /\ UNCHANGED sleptSecs
    /\ UNCHANGED keyVars

\* lines 246-253: if committed { return Ok(()) }
wait_for_tx_check ==
    /\ Running /\ Kind = "wait_for_tx" /\ tpc = "check"
    /\ IF tx_committed(txs)
       THEN /\ trackerRet' = "Ok"
            /\ Advance
       ELSE /\ tpc' = "sleep"
            /\ UNCHANGED << op, step, outcome, tracker, trackerRet >>
    /\ UNCHANGED << txVars, noteVars, polls, sleeps, lastSync, lastQuery,
                    firstCommittedAt, submitVars, fsVars >>
    /\ UNCHANGED sessVars
    /\ UNCHANGED callVars
    /\ UNCHANGED nodeVars
    /\ UNCHANGED acctVars
    /\ UNCHANGED errVars
    /\ UNCHANGED firstFoundAt
    /\ UNCHANGED sleptSecs
    /\ UNCHANGED keyVars

\* faulty variant: the loop submits the transaction again before it polls again
wait_for_tx_sleep_resubmit ==
    /\ Running /\ Kind = "wait_for_tx" /\ tpc = "sleep"
    /\ polls < MaxPolls
    /\ sleeps' = sleeps + 1
    /\ sleptSecs' = sleptSecs + TX_POLL_SECS
    /\ submitCalls' = submitCalls + 1
    /\ txs' = << >>
    /\ tpc' = "sync"
    /\ UNCHANGED << op, step, outcome, tracker, tx_id, store, noteVars, polls,
                    lastSync, lastQuery, trackerRet, firstCommittedAt,
                    submitRes, callsAfterSubmit, fsVars >>
    /\ UNCHANGED sessVars
    /\ UNCHANGED callVars
    /\ UNCHANGED nodeVars
    /\ UNCHANGED acctVars
    /\ UNCHANGED errVars
    /\ UNCHANGED firstFoundAt
    /\ UNCHANGED keyVars

\* lines 255-260: sleep(Duration::from_secs(2)).await, then the loop repeats
wait_for_tx_sleep ==
    /\ Running /\ Kind = "wait_for_tx" /\ tpc = "sleep"
    /\ polls < MaxPolls
    /\ sleeps' = sleeps + 1
    /\ sleptSecs' = sleptSecs + TX_POLL_SECS
    /\ txs' = << >>
    /\ tpc' = "sync"
    /\ UNCHANGED << op, step, outcome, tracker, tx_id, store, noteVars, polls,
                    lastSync, lastQuery, trackerRet, firstCommittedAt,
                    submitVars, fsVars >>
    /\ UNCHANGED sessVars
    /\ UNCHANGED callVars
    /\ UNCHANGED nodeVars
    /\ UNCHANGED acctVars
    /\ UNCHANGED errVars
    /\ UNCHANGED firstFoundAt
    /\ UNCHANGED keyVars

\* -------------------------------------------------------- wait_for_note
\* line 270: client.sync_state().await?
wait_for_note_sync ==
    /\ Running /\ Kind = "wait_for_note" /\ tpc = "sync"
    /\ awaiting = "sync_state"
    /\ awaiting' = "none"
    /\ syncInFlight' = syncInFlight - 1
    /\ polls' = polls + 1
    /\ lastQuery' = "none"
    /\ CountAfterSubmit
    /\ \/ /\ \E n2 \in synced_notes(notes) :
                /\ notes' = n2
                /\ firstFoundAt' =
                      IF /\ firstFoundAt = 0
                         /\ expected \in get_consumable_notes(n2, account_id)
                                          \cup get_input_notes_committed(n2)
                      THEN polls + 1 ELSE firstFoundAt
          /\ lastSync' = "ok"
          /\ tpc' = "query"
          /\ UNCHANGED << op, step, outcome, tracker, trackerRet, errValue >>
       \/ /\ lastSync' = "err"
          /\ TrackerErr
          /\ UNCHANGED << notes, firstFoundAt >>
    /\ UNCHANGED << txVars, account_id, expected, consumable, committed, sleeps,
                    firstCommittedAt, submitRes, submitCalls, fsVars >>
    /\ UNCHANGED sessVars
    /\ UNCHANGED nodeVars
    /\ UNCHANGED acctVars
    /\ UNCHANGED sleptSecs
    /\ UNCHANGED keyVars

\* lines 273-276: get_consumable_notes(account_id).await? and then
\* get_input_notes(NoteFilter::Committed).await?
wait_for_note_query ==
    /\ Running /\ Kind = "wait_for_note" /\ tpc = "query"
    /\ CountAfterSubmit
    /\ \/ /\ consumable' = get_consumable_notes(notes, account_id)
          /\ committed' = get_input_notes_committed(notes)
          /\ lastQuery' = "ok"
          /\ tpc' = "check"
          /\ UNCHANGED << op, step, outcome, tracker, trackerRet, errValue >>
       \/ /\ \E seen \in {{}, get_consumable_notes(notes, account_id)} :
                consumable' = seen
          /\ lastQuery' = "err"
          /\ TrackerErr
          /\ UNCHANGED committed
    /\ UNCHANGED << txVars, account_id, expected, notes, polls, sleeps, lastSync,
                    firstCommittedAt, submitRes, submitCalls, fsVars >>
    /\ UNCHANGED sessVars
    /\ UNCHANGED callVars
    /\ UNCHANGED nodeVars
    /\ UNCHANGED acctVars
    /\ UNCHANGED firstFoundAt
    /\ UNCHANGED sleptSecs
    /\ UNCHANGED keyVars

\* lines 279-285: if found { break } ... Ok(())
wait_for_note_check ==
    /\ Running /\ Kind = "wait_for_note" /\ tpc = "check"
    /\ IF note_found(consumable, committed, expected)
       THEN /\ trackerRet' = "Ok"
            /\ Advance
       ELSE /\ tpc' = "sleep"
            /\ UNCHANGED << op, step, outcome, tracker, trackerRet >>
    /\ UNCHANGED << txVars, noteVars, polls, sleeps, lastSync, lastQuery,
                    firstCommittedAt, submitVars, fsVars >>
    /\ UNCHANGED sessVars
    /\ UNCHANGED callVars
    /\ UNCHANGED nodeVars
    /\ UNCHANGED acctVars
    /\ UNCHANGED errVars
    /\ UNCHANGED firstFoundAt
    /\ UNCHANGED sleptSecs
    /\ UNCHANGED keyVars

\* faulty variant: the sleep grows with the number of polls made
wait_for_note_sleep_backoff ==
    /\ Running /\ Kind = "wait_for_note" /\ tpc = "sleep"
    /\ polls < MaxPolls
    /\ sleeps' = sleeps + 1
    /\ sleptSecs' = sleptSecs + NOTE_POLL_SECS * polls
    /\ consumable' = {} /\ committed' = {}
    /\ tpc' = "sync"
    /\ UNCHANGED << op, step, outcome, tracker, txVars, account_id, expected,
                    notes, polls, lastSync, lastQuery, trackerRet,
                    firstCommittedAt, submitVars, fsVars >>
    /\ UNCHANGED sessVars
    /\ UNCHANGED callVars
    /\ UNCHANGED nodeVars
    /\ UNCHANGED acctVars
    /\ UNCHANGED errVars
    /\ UNCHANGED firstFoundAt
    /\ UNCHANGED keyVars

\* lines 287-288: sleep(Duration::from_secs(2)).await, then the loop repeats
wait_for_note_sleep ==
    /\ Running /\ Kind = "wait_for_note" /\ tpc = "sleep"
    /\ polls < MaxPolls
    /\ sleeps' = sleeps + 1
    /\ sleptSecs' = sleptSecs + NOTE_POLL_SECS
    /\ consumable' = {} /\ committed' = {}
    /\ tpc' = "sync"
    /\ UNCHANGED << op, step, outcome, tracker, txVars, account_id, expected,
                    notes, polls, lastSync, lastQuery, trackerRet,
                    firstCommittedAt, submitVars, fsVars >>
    /\ UNCHANGED sessVars
    /\ UNCHANGED callVars
    /\ UNCHANGED nodeVars
    /\ UNCHANGED acctVars
    /\ UNCHANGED errVars
    /\ UNCHANGED firstFoundAt
    /\ UNCHANGED keyVars

\* ------------------------------------------------------- specification
Init ==
    /\ op \in Ops
    /\ step = 1
    /\ tpc = IF Flow(op)[1] \in Trackers THEN "sync" ELSE "idle"
    /\ tracker = IF Flow(op)[1] \in Trackers THEN Flow(op)[1] ELSE "none"
    /\ outcome = "running"
    /\ fs \in IF op \in {"increment_main", "deploy_main", "script_test"}
              THEN InitFs ELSE {SessionFs}
    /\ fsBefore = fs /\ fsStart = fs /\ resetsInRow = 0 /\ stderr = 0
    /\ store \in IF op = "wait_for_note" THEN {EmptyStore} ELSE [TxIds -> TxStatus]
    /\ fs.store = "absent" => store = EmptyStore
    /\ op = "create_public_note" => FreshTx # {}
    /\ tx_id \in IF op = "wait_for_tx" THEN TxIds ELSE {NoTx}
    /\ txs = << >>
    /\ account_id \in IF op = "wait_for_note" THEN Accounts \cup {NoAccount}
                      ELSE {NoAccount}
    /\ expected \in IF op = "wait_for_note" THEN NoteIds ELSE {NoNote}
    /\ notes \in IF op = "wait_for_note" THEN [NoteIds -> NoteRecords]
                 ELSE {EmptyNotes}
    /\ consumable = {} /\ committed = {}
    /\ polls = 0 /\ sleeps = 0
    /\ lastSync = "none" /\ lastQuery = "none" /\ trackerRet = "none"
    /\ firstCommittedAt = 0
    /\ submitRes = "none" /\ submitCalls = 0 /\ callsAfterSubmit = 0
    /\ liveSessions = IF op \in {"increment_main", "deploy_main", "script_test"}
                      THEN 0 ELSE 1
    /\ sessionsAtReset = 0
    /\ awaiting = "none" /\ syncInFlight = 0
    /\ nodeTx = "none"
    /\ chainSlot \in IF op = "increment_main"
                     THEN { w \in SlotStates : w[4] <= MaxCount }
                     ELSE {NoState}
    /\ localSlot = NoState /\ counterReads = << >>
    /\ errValue = NoError
    /\ firstFoundAt = 0
    /\ sleptSecs = 0
    /\ accountAdded = FALSE /\ keyAdded = FALSE

Next ==
    \/ Reset
    \/ BuildClient
    \/ sync_state_call
    \/ Sync
    \/ ImportAccount
    \/ GetAccount
    \/ AddAccount
    \/ AddBasicAccount
    \/ AddKey
    \/ Verify
    \/ NodeInclude
    \/ NodeDrop
    \/ OtherIncrement
    \/ Build
    \/ Settle
    \/ NewTransaction
    \/ SubmitTransaction
    \/ SubmitNewTransaction
    \/ wait_for_tx_sync
    \/ wait_for_tx_query
    \/ wait_for_tx_check
    \/ wait_for_tx_sleep
    \/ wait_for_note_sync
    \/ wait_for_note_query
    \/ wait_for_note_check
    \/ wait_for_note_sleep

Spec == Init /\ [][Next]_vars

\* wait_for_note on its own; the runtime drives the one task of the
\* tracker: an awaited query returns, and the check that follows it runs
\* note ids and account ids are interchangeable, so one expected note and
\* one scoping account stand for all
InitLive ==
    /\ Init /\ op = "wait_for_note"
    /\ expected = 1
    /\ account_id \in {NoAccount, 1}

NextLive ==
    \/ sync_state_call
    \/ wait_for_note_sync
    \/ wait_for_note_query
    \/ wait_for_note_check
    \/ wait_for_note_sleep

SpecLive ==
    /\ InitLive /\ [][NextLive]_vars
    /\ WF_vars(wait_for_note_query)
    /\ WF_vars(wait_for_note_check)

\* ------------------------------------- the reset on an arbitrary disk
\* a session between two resets: it opens its files and may add a key file
SessionActivity ==
    /\ op = "reset"
    /\ resetsInRow > 0
    /\ fs.keystore # "notdir"
    /\ \E added \in SUBSET KeyNames :
          fs' = [open_session_files(fs) EXCEPT
                   !.entries = [n \in KeyNames |->
                                  IF n \in added /\ fs.entries[n] = "none"
                                  THEN "file" ELSE fs.entries[n]]]
    /\ resetsInRow' = 0
    /\ fsBefore' = fs' /\ fsStart' = fs'
    /\ UNCHANGED << ctlVars, txVars, noteVars, pollVars, submitVars, stderr >>
    /\ UNCHANGED sessVars
    /\ UNCHANGED callVars
    /\ UNCHANGED nodeVars
    /\ UNCHANGED acctVars
    /\ UNCHANGED errVars
    /\ UNCHANGED keyVars

\* delete_keystore_and_store().await, called directly
ResetCall ==
    /\ op = "reset"
    /\ resetsInRow < MaxResets
    /\ ResetEffect
    /\ UNCHANGED << ctlVars, txVars, noteVars, pollVars, submitVars >>
    /\ UNCHANGED sessVars
    /\ UNCHANGED callVars
    /\ UNCHANGED nodeVars
    /\ UNCHANGED acctVars
    /\ UNCHANGED errVars
    /\ UNCHANGED keyVars

InitReset ==
    /\ op = "reset"
    /\ step = 1 /\ tpc = "idle" /\ tracker = "none" /\ outcome = "running"
    /\ fs \in { f \in FsStates : FsWellFormed(f) }
    /\ fsBefore = fs /\ fsStart = fs /\ resetsInRow = 0 /\ stderr = 0
    /\ store = EmptyStore /\ tx_id = NoTx /\ txs = << >>
    /\ account_id = NoAccount /\ expected = NoNote /\ notes = EmptyNotes
    /\ consumable = {} /\ committed = {}
    /\ polls = 0 /\ sleeps = 0
    /\ lastSync = "none" /\ lastQuery = "none" /\ trackerRet = "none"
    /\ firstCommittedAt = 0
    /\ submitRes = "none" /\ submitCalls = 0 /\ callsAfterSubmit = 0
    /\ liveSessions = 0
    /\ sessionsAtReset = 0
    /\ awaiting = "none" /\ syncInFlight = 0
    /\ nodeTx = "none" /\ chainSlot = NoState
    /\ localSlot = NoState /\ counterReads = << >>
    /\ errValue = NoError
    /\ firstFoundAt = 0
    /\ sleptSecs = 0
    /\ accountAdded = FALSE /\ keyAdded = FALSE

NextReset == ResetCall \/ SessionActivity

SpecReset == InitReset /\ [][NextReset]_vars

\* =============================================================== claims
TxTracked == tracker = "wait_for_tx"
NoteTracked == tracker = "wait_for_note"

\* C1: wait_for_tx returns Ok only when the query of the same iteration,
\* made after that iteration's successful synchronize, returned a record of
\* tx_id with status Committed; never while the record is absent, Pending
\* or Discarded.
C1_TxSuccessOnlyIfCommitted ==
    (TxTracked /\ trackerRet = "Ok") =>
        /\ lastSync = "ok" /\ lastQuery = "ok"
        /\ Len(txs) >= 1
        /\ txs[1].id = tx_id
        /\ txs[1].status = "Committed"
        /\ store[tx_id] = "Committed"

C1_Witness ==
    /\ TxTracked /\ trackerRet = "Ok" /\ polls = 2
    /\ \E t \in TxIds : t < tx_id /\ store[t] = "Discarded"

\* C2: when the record of tx_id first becomes Committed at the k-th
\* synchronize of wait_for_tx, the tracker is in its k-th poll or has
\* returned from it: it never sleeps or polls again, it returns Ok unless
\* the query of that poll failed, and an Ok return was made at poll k (at
\* poll 1 when the record was Committed before the tracker started).
C2_ReturnsAtKthPoll ==
    /\ (TxTracked /\ firstCommittedAt # 0) =>
          /\ polls = firstCommittedAt
          /\ tpc \in {"query", "check", "idle"}
          /\ (tpc = "idle" => trackerRet \in {"Ok", "Err"})
          /\ (trackerRet = "Err" => lastQuery = "err")
    /\ (TxTracked /\ trackerRet = "Ok" /\ firstCommittedAt = 0) => polls = 1

C2_Witness ==
    TxTracked /\ trackerRet = "Ok" /\ firstCommittedAt = 2 /\ sleeps = 1

\* C3 (as claimed): a failed synchronize inside a tracker does not end the
\* tracker.
C3_SyncFailureIsAbsorbed ==
    (tracker # "none" /\ lastSync = "err") => trackerRet # "Err"

\* C4 (as claimed): a failed query inside a tracker is absorbed, so no run
\* of a tracker ends with an error.
C4_QueryFailureIsAbsorbed ==
    (tracker # "none" /\ lastQuery = "err") => trackerRet # "Err"

\* C5 (as claimed): while the record of tx_id is Discarded or absent, which
\* it then stays for ever, wait_for_tx has not terminated, neither with Ok
\* nor with an error.
C5_NoReturnWhileDiscardedOrAbsent ==
    (TxTracked /\ store[tx_id] \in {"Discarded", "Absent"}) => trackerRet = "none"

InConsumableView ==
    /\ notes[expected].consumer # NoAccount
    /\ (account_id = NoAccount \/ notes[expected].consumer = account_id)

InCommittedView == notes[expected].committed

\* C6: wait_for_note returns Ok at a poll exactly when, after that poll's
\* successful synchronize, expected is in the consumable view (of account_id
\* when given, of any account otherwise) or in the Committed input-note
\* view: the views it compares are those of the synchronized store, an Ok
\* return has the id in one of them, and a sleep has it in neither.
C6_NoteSuccessIffInAView ==
    NoteTracked =>
        /\ (tpc = "check" =>
               /\ (expected \in consumable <=> InConsumableView)
               /\ (expected \in committed <=> InCommittedView))
        /\ (trackerRet = "Ok" =>
               /\ lastSync = "ok" /\ lastQuery = "ok"
               /\ (InConsumableView \/ InCommittedView))
        /\ (tpc = "sleep" => ~InConsumableView /\ ~InCommittedView)

C6_Witness ==
    /\ NoteTracked /\ trackerRet = "Ok" /\ sleeps = 1
    /\ account_id # NoAccount
    /\ InConsumableView /\ ~InCommittedView
    /\ \E n \in NoteIds : n # expected /\ notes[n].consumer \notin {NoAccount, account_id}

\* C7 (as claimed): a failed submission ends the flow at once with that
\* error: no transaction id, no tracker, no synchronize or query afterwards.
C7_FailedSubmitEndsTheFlow ==
    submitRes \in {"exec_err", "rejected"} =>
        /\ outcome \in {"err", "panic"}
        /\ tx_id = NoTx
        /\ tracker = "none"
        /\ callsAfterSubmit = 0

\* C8: one flow submits its transaction at most once: a failed submit is
\* not repeated, and the polls of the tracker add no submit.
C8_SubmittedAtMostOnce ==
    /\ submitCalls <= 1
    /\ submitRes \in {"ok", "rejected"} => submitCalls = 1
    /\ (TxTracked /\ op # "wait_for_tx") => (submitCalls = 1 /\ submitRes = "ok")

C8_Witness ==
    /\ op = "create_public_note" /\ TxTracked
    /\ polls = 2 /\ sleeps = 1 /\ submitCalls = 1

NoFileLeft(f) ==
    /\ f.store = "absent"
    /\ \A n \in KeyNames : f.entries[n] \notin {"file", "locked"}

C11_OneLiveSession ==
    op \in {"deploy_main", "script_test"} =>
        /\ liveSessions <= 1
        /\ sessionsAtReset = 0

\* C12: synchronize calls on a session never overlap: at most one is in
\* flight, the caller is suspended on it, and it completes before the next
\* one is issued.
C12_SyncCallsDoNotOverlap ==
    /\ syncInFlight \in {0, 1}
    /\ syncInFlight = 1 <=> awaiting = "sync_state"
    /\ syncInFlight = 1 =>
          \/ Flow(op)[step] = "sync"
          \/ Flow(op)[step] \in Trackers /\ tpc = "sync"

\* a tracker's second synchronize is in flight after its first one completed
C12_Witness ==
    /\ tracker # "none" /\ Running
    /\ polls = 1 /\ sleeps = 1
    /\ syncInFlight = 1

\* C13: in the flows that deploy a counter with slot [0,0,0,0] and submit
\* the increment script, the value read at the final re-fetch is 1, whenever
\* the node includes the transaction; the check of the value never fails.
C13_RefetchedCounterIsOne ==
    op \in {"deploy_main", "script_test"} =>
        /\ \A i \in 1..Len(counterReads) : counterReads[i] = 1
        /\ outcome # "exit1"
        /\ (Flow(op)[step] = "verify" => outcome # "panic")

\* src/main.rs ran to its success message with the counter read as 1
C13_Witness ==
    /\ op = "deploy_main" /\ outcome = "ok"
    /\ counterReads = << 1 >>
    /\ submitRes = "ok"

\* C15 (as claimed): an error returned by a tracker carries the identifier
\* of the transaction or of the note it was tracking.
C15_ErrorCarriesIdentifier ==
    trackerRet = "Err" =>
        errValue.id = (IF tracker = "wait_for_tx" THEN tx_id ELSE expected)

\* at the poll where the expected note first shows in a view, the tracker is
\* on its way out: it has not slept since, and it returns success unless the
\* query of that poll fails; it returns success at no other poll
C16_ReturnsAtFirstFoundPoll ==
    NoteTracked =>
        /\ firstFoundAt # 0 =>
              /\ polls = firstFoundAt
              /\ sleeps = polls - 1
              /\ tpc \in {"query", "check", "idle"}
              /\ tpc = "idle" =>
                    \/ trackerRet = "Ok"
                    \/ trackerRet = "Err" /\ lastQuery = "err"
        /\ trackerRet = "Ok" => firstFoundAt = polls

\* C16: wait_for_note returns success at the first poll at which the
\* expected note is in the consumable view or in the Committed view, one of
\* them being enough; once the note has shown there, the tracker
\* terminates.
C16_NoteTrackerTerminates ==
    /\ []C16_ReturnsAtFirstFoundPoll
    /\ (NoteTracked /\ firstFoundAt # 0) ~> (trackerRet # "none")

\* success at the second poll on a note that is consumable by the account
\* and not in the Committed view
C16_Witness ==
    /\ NoteTracked /\ trackerRet = "Ok"
    /\ polls = 2 /\ firstFoundAt = 2
    /\ expected \in consumable /\ expected \notin committed

\* C17: in a tracker, one sleep separates two consecutive synchronize
\* calls, each sleep lasts 2 seconds in both loops whatever the attempt, and
\* no sleep follows the poll at which the tracker returns.
C17_OneFixedSleepBetweenPolls ==
    tracker # "none" =>
        /\ sleeps = (IF tpc = "sync" THEN polls ELSE polls - 1)
        /\ sleptSecs = 2 * sleeps
        /\ trackerRet = "Ok" => sleeps = polls - 1

\* wait_for_tx returned success at its third poll, after two sleeps of 2 s
C17_Witness ==
    /\ TxTracked /\ trackerRet = "Ok"
    /\ polls = 3 /\ sleeps = 2 /\ sleptSecs = 4

\* C18: create_public_note returns Ok(note) only after the creating
\* transaction was submitted, once, and wait_for_tx returned on seeing it
\* Committed.
C18_NoteReturnedOnlyAfterCommit ==
    (op = "create_public_note" /\ outcome = "ok") =>
        /\ submitRes = "ok" /\ submitCalls = 1
        /\ trackerRet = "Ok"
        /\ nodeTx = "included"
        /\ store[tx_id] = "Committed"

\* create_public_note returned the note after a wait of two polls
C18_Witness ==
    /\ op = "create_public_note" /\ outcome = "ok"
    /\ trackerRet = "Ok" /\ polls = 2
    /\ tx_id # NoTx

\* C19 (as claimed): whenever create_basic_account has returned, with Ok or
\* with an error, an account it added to the store has its key in the
\* keystore.
C19_RegisteredAccountHasKey ==
    (op = "create_basic_account" /\ outcome # "running") =>
        (accountAdded => keyAdded)

\* C20: when the increment flow on an existing public counter reaches its
\* success message, the counter read after wait_for_tx returned is strictly
\* greater than the counter read before the submission, whatever other
\* actors incremented meanwhile.
C20_CounterGrewAtSuccess ==
    (op = "increment_main" /\ outcome = "ok") =>
        /\ Len(counterReads) = 2
        /\ counterReads[2] > counterReads[1]

\* the flow succeeded while another actor's increment also went in
C20_Witness ==
    /\ op = "increment_main" /\ outcome = "ok"
    /\ trackerRet = "Ok"
    /\ Len(counterReads) = 2
    /\ counterReads[2] = counterReads[1] + 2

====
